---- MODULE Spec2Model ----
(***************************************************************************)
(* Bounded FIFO queues of rickypang0219/lockfree_fifo:                     *)
(*   variant 1  Fifo1   ring + two counters, used under one Mutex          *)
(*   variant 2  Fifo2   atomic push/pop cursors (acquire/release)          *)
(*   variant 3  Fifo3   Fifo2 with cache-padded cursors                    *)
(*   variant 4  Fifo4   shadow cursors cached_pop / cached_push            *)
(*   variant 5  Fifo5   Fifo4 over MaybeUninit storage                     *)
(*   variant 6  Fifo6   (fifo6a) per-slot turn counters, CAS on head/tail  *)
(*                                                                         *)
(* Every atomic load, store and compare_exchange and every slot access of  *)
(* the lock-free variants is one step of the calling thread; steps of      *)
(* different threads interleave freely (sequentially consistent            *)
(* interleaving of the atomics).  Fifo1's push and pop run with the Mutex  *)
(* held, so each is one step.                                              *)
(*                                                                         *)
(* An Option<T> or a storage cell is a sequence: <<>> is None / a cell     *)
(* holding no value, <<v>> is Some(v) / a cell holding v.                  *)
(***************************************************************************)
EXTENDS Integers, Sequences, FiniteSets

\* ---- bounds of the model ------------------------------------------------
\* largest capacity tried
MaxCap == 2
\* number of distinct items the producers push (items are 0 .. MaxPush-1)
MaxPush == 4
\* number of calls recorded in a single-threaded history
MaxOps == 6
\* width in bits of the model's usize
WordBits == 10
\* run_benchmark: largest capacity and largest iters tried
MaxHarnessCap == 3
MaxIters == 3
\* width in bits of the usize of the runs that wrap head, tail and the turns,
\* and the number of items pushed in them
WrapBits == 3
MaxWrapPush == 9

VARIABLES
    mode,        \* "seq": one thread makes every call; "spsc"; "mpmc";
                 \*   "spmc": one producer, two consumers
    variant,     \* 1..6, which queue type was constructed
    capacity,    \* Fifo*.capacity
    modulus,     \* 2^(bits of usize)
    observing,   \* the history `instant` is kept in this run
    ring,        \* Fifo*.ring: the storage cells
    push_cursor, \* Fifo1..5
    pop_cursor,  \* Fifo1..5
    cached_pop,  \* Fifo4/5 ProducerFields.cached_pop
    cached_push, \* Fifo4/5 ConsumerFields.cached_push
    head,        \* Fifo6.head
    tail,        \* Fifo6.tail
    turn,        \* Fifo6.ring[i].turn
    panicked,    \* an assert! failed
    pc,          \* per thread: where it is inside push / pop
    loc,         \* per thread: the locals of the call in progress
    modified,    \* per thread: the call in progress has changed a queue field
    instant,     \* per thread: at some instant of the call in progress the queue
                 \*   was full (a push) / empty (a pop)
    sent,        \* per thread: number of its pushes that returned true
    pushed,      \* items whose push returned true
    popped,      \* items returned by pops, in order of return
    hist,        \* mode "seq": the completed calls with their results
    tailClaims,  \* Fifo6: items in the order their pushes claimed a tail value
    headClaims,  \* Fifo6: number of pops that claimed a head value
    done,        \* run_benchmark: the AtomicBool the producer sets after its last push
    expected,    \* run_benchmark: the consumer's counter of validated values
    iters,       \* run_benchmark: number of items the producer pushes
    cons,        \* run_benchmark: where the consumer thread is in its loop
    live,        \* the queue has not been destroyed
    dropped,     \* items destruction was run on when the queue was destroyed
    twin,        \* a Fifo2 of the same capacity, given the same calls
    align        \* which step of a Fifo4/5 call the twin takes its loads at

cfg   == <<mode, variant, capacity, modulus, observing>>
qvars == <<ring, push_cursor, pop_cursor, cached_pop, cached_push, head, tail, turn>>
tvars == <<pc, loc, modified, instant, panicked>>
ghost == <<sent, pushed, popped, hist, tailClaims, headClaims>>
hvars == <<done, expected, iters, cons>>
life  == <<live, dropped>>
pair  == <<twin, align>>
vars  == <<cfg, qvars, tvars, ghost, hvars, life, pair>>

Threads == {"p0", "p1", "c0", "c1"}

None == <<>>
Some(v) == <<v>>

RECURSIVE Pow2(_)
Pow2(n) == IF n = 0 THEN 1 ELSE 2 * Pow2(n - 1)

\* usize::is_power_of_two
is_power_of_two(c) == c > 0 /\ \E k \in 0..c : Pow2(k) = c

\* bitwise and of two naturals
RECURSIVE BitAnd(_, _)
BitAnd(a, b) ==
    IF a = 0 \/ b = 0 THEN 0
    ELSE (a % 2) * (b % 2) + 2 * BitAnd(a \div 2, b \div 2)

wrapping_add(a, b) == (a + b) % modulus
wrapping_sub(a, b) == (a - b + modulus) % modulus
\* `diff as isize`: two's complement reading of a usize
as_isize(d) == IF d >= modulus \div 2 THEN d - modulus ELSE d

\* ---- who calls what -----------------------------------------------------
Producers == IF mode = "mpmc" THEN {"p0", "p1"} ELSE {"p0"}
Consumers == IF mode \in {"mpmc", "spmc"} THEN {"c0", "c1"}
             ELSE IF mode = "spsc" THEN {"c0"} ELSE {"p0"}
ProducerIndex(t) == IF t = "p1" THEN 1 ELSE 0

\* The harness loop `for i in 0..iters { loop { if queue.push(i) { break } } }`:
\* a producer offers its next item until a push of it returns true.  With
\* several producers the items are dealt round-robin so that all differ.
NextItem(t) == ProducerIndex(t) + Cardinality(Producers) * sent[t]

\* the producers stop after this many items: more of them in the runs with a
\* narrow usize, which have to go round it
PushLimit == IF modulus = Pow2(WrapBits) THEN MaxWrapPush ELSE MaxPush

NoLocals == [cur |-> 0, seen |-> 0, item |-> 0, ok |-> FALSE, ret |-> None, gpos |-> 0]

\* ---- construction -------------------------------------------------------
Slots == 0 .. capacity - 1

\* Fifo6::new asserts capacity.is_power_of_two(); Fifo1..5::new accept any usize
NewAccepts(v, c) == IF v = 6 THEN is_power_of_two(c) ELSE TRUE

\* the capacities a queue of variant v can be constructed with, up to MaxCap
Caps(v) == {c \in 0..MaxCap : NewAccepts(v, c)}

New(v, c) ==
    /\ variant = v
    /\ capacity = c
    /\ ring = [i \in 0 .. c - 1 |-> None]
    /\ push_cursor = 0
    /\ pop_cursor = 0
    /\ cached_pop = 0
    /\ cached_push = 0
    /\ head = 0
    /\ tail = 0
    /\ turn = [i \in 0 .. c - 1 |-> IF v = 6 THEN i ELSE 0]

\* Fifo2::new(capacity), no call in progress
Twin2New ==
    [ring |-> [i \in 0 .. capacity - 1 |-> None],
     push_cursor |-> 0,
     pop_cursor |-> 0,
     pc |-> [t \in Threads |-> "idle"],
     loc |-> [t \in Threads |-> NoLocals],
     at |-> [t \in Threads |-> "idle"]]

InitShared ==
    /\ panicked = FALSE
    /\ pc = [t \in Threads |-> "idle"]
    /\ loc = [t \in Threads |-> NoLocals]
    /\ modified = [t \in Threads |-> FALSE]
    /\ instant = [t \in Threads |-> FALSE]
    /\ sent = [t \in Threads |-> 0]
    /\ pushed = {}
    /\ popped = <<>>
    /\ hist = <<>>
    /\ tailClaims = <<>>
    /\ headClaims = 0
    /\ done = FALSE
    /\ expected = 0
    /\ live = TRUE
    /\ dropped = <<>>
    /\ twin = Twin2New

InitRest == InitShared /\ align = "decide" /\ modulus = Pow2(WordBits)

InitCalls ==
    /\ mode \in {"seq", "spsc", "mpmc"}
    /\ \E v \in 1..6 : \E c \in Caps(v) :
          /\ mode = "mpmc" => v = 6 /\ c >= 2
          /\ New(v, c)
    /\ InitRest
    /\ iters = 0
    /\ cons = "pop"

\* calls made in any order; the history `instant` is kept for the runs of one
\* thread and of one producer with one consumer
Init == InitCalls /\ observing = (mode # "mpmc")

\* the same, the history kept in every run
ObservedInit == InitCalls /\ observing = TRUE

\* ---- bookkeeping shared by the steps ------------------------------------
InPush(label) == label \in {"push_begin", "push_load_pop", "push_refresh", "push_load_turn",
                            "push_cas", "push_write", "push_store", "push_done"}
InPop(label) == label \in {"pop_begin", "pop_load_pop", "pop_refresh", "pop_load_turn",
                           "pop_cas", "pop_read", "pop_store", "pop_done"}

\* Fifo6: the pops that have claimed a head value, read their slot and stored
\* its turn
PopsCompleted == headClaims - Cardinality({u \in Threads : pc[u] \in {"pop_read", "pop_store"}})

\* The queue is full: Fifo1..5 by the cursors; Fifo6: the pushes that have
\* claimed a slot less the pops that have completed are capacity.
GenuinelyFull ==
    IF variant = 6 THEN Len(tailClaims) - PopsCompleted = capacity
    ELSE push_cursor - pop_cursor = capacity

\* The queue is empty: Fifo1..5 by the cursors; Fifo6: every item whose push
\* has returned true has been claimed by a pop.
GenuinelyEmpty ==
    IF variant = 6
    THEN \A k \in 1 .. Len(tailClaims) : tailClaims[k] \in pushed => k <= headClaims
    ELSE push_cursor = pop_cursor

\* instant[u] is kept over every state of the call of u, the one the call
\* starts in and the one it returns from included
Observe ==
    instant' = [u \in Threads |->
                   IF ~observing THEN FALSE
                   ELSE IF InPush(pc'[u]) THEN (InPush(pc[u]) /\ instant[u]) \/ GenuinelyFull'
                   ELSE IF InPop(pc'[u]) THEN (InPop(pc[u]) /\ instant[u]) \/ GenuinelyEmpty'
                   ELSE FALSE]

\* the call of t has changed a field of the queue
Track(t) ==
    /\ modified' = [modified EXCEPT ![t] = @ \/ (qvars' # qvars)]
    /\ Observe

Goto(t, label, l) ==
    /\ pc' = [pc EXCEPT ![t] = label]
    /\ loc' = [loc EXCEPT ![t] = l]

\* `pop_val % self.capacity`, `push_val % self.capacity` (Fifo2..5)
RingLoc(cursor) == cursor % capacity
\* a remainder by zero panics ("attempt to calculate the remainder with a
\* divisor of zero"); a queue of capacity 0 is always full and always empty,
\* so no call of the code gets as far as computing one
RemainderPanics == capacity = 0
\* `head & (self.capacity - 1)`, `tail & (self.capacity - 1)` (Fifo6)
RingIndex(cursor) == BitAnd(cursor, capacity - 1)

\* the cell thread u is about to access, or is accessing
CellOf(u) == IF variant = 6 THEN RingIndex(loc[u].cur) ELSE RingLoc(loc[u].cur)

\* Thread u is inside its write (read) of a cell from the step that decides to
\* access it up to the step that completes the access.
Writing(u) == pc[u] = "push_write"
Reading(u) == pc[u] = "pop_read"

WriterOn(t, i) == \E u \in Threads \ {t} : Writing(u) /\ CellOf(u) = i
ReaderOn(t, i) == \E u \in Threads \ {t} : Reading(u) /\ CellOf(u) = i

Garbage == {Some(v) : v \in 0 .. PushLimit - 1}

\* What a read of cell i as an Option<T> can yield (Fifo2..4: take()).  A read
\* that races with a write of the same cell is undefined: any value.
TakeOutcomes(t, i) ==
    IF WriterOn(t, i) THEN Garbage \cup {None, ring[i]} ELSE {ring[i]}

\* What a read of cell i as a T can yield (Fifo5: as_ptr().read(), Fifo6:
\* read().assume_init()).  Reading a cell never written, or one being written,
\* is undefined: any value.
ReadOutcomes(t, i) ==
    IF WriterOn(t, i) \/ ring[i] = None THEN (Garbage \cup {ring[i]}) \ {None}
    ELSE {ring[i]}

\* What a write of item into cell i can leave there.
WriteOutcomes(t, i, item) ==
    IF WriterOn(t, i) \/ ReaderOn(t, i) THEN Garbage \cup {Some(item)}
    ELSE {Some(item)}

\* ---- calls and returns --------------------------------------------------
PushCall(t) ==
    /\ pc[t] = "idle"
    /\ t \in Producers
    /\ ~panicked
    /\ live
    /\ NextItem(t) < PushLimit
    /\ Len(hist) < MaxOps
    /\ Goto(t, "push_begin", [NoLocals EXCEPT !.item = NextItem(t)])
    /\ modified' = [modified EXCEPT ![t] = FALSE]
    /\ UNCHANGED <<cfg, pair, qvars, panicked, ghost, hvars, life>>
    /\ Observe

PopCall(t) ==
    /\ pc[t] = "idle"
    /\ t \in Consumers
    /\ ~panicked
    /\ live
    /\ Len(hist) < MaxOps
    /\ Goto(t, "pop_begin", NoLocals)
    /\ modified' = [modified EXCEPT ![t] = FALSE]
    /\ UNCHANGED <<cfg, pair, qvars, panicked, ghost, hvars, life>>
    /\ Observe

PushReturn(t) ==
    /\ pc[t] = "push_done"
    /\ Goto(t, "idle", NoLocals)
    /\ modified' = [modified EXCEPT ![t] = FALSE]
    /\ sent' = [sent EXCEPT ![t] = IF loc[t].ok THEN @ + 1 ELSE @]
    /\ pushed' = IF loc[t].ok THEN pushed \cup {loc[t].item} ELSE pushed
    /\ hist' = IF mode = "seq"
               THEN Append(hist, [op |-> "push", arg |-> Some(loc[t].item),
                                  ok |-> loc[t].ok, ret |-> None])
               ELSE hist
    /\ UNCHANGED <<cfg, pair, qvars, panicked, popped, tailClaims, headClaims, hvars, life>>
    /\ Observe

PopReturn(t) ==
    /\ pc[t] = "pop_done"
    /\ Goto(t, "idle", NoLocals)
    /\ modified' = [modified EXCEPT ![t] = FALSE]
    /\ popped' = IF loc[t].ret # None THEN Append(popped, loc[t].ret[1]) ELSE popped
    /\ hist' = IF mode = "seq"
               THEN Append(hist, [op |-> "pop", arg |-> None,
                                  ok |-> loc[t].ret # None, ret |-> loc[t].ret])
               ELSE hist
    /\ UNCHANGED <<cfg, pair, qvars, panicked, sent, pushed, tailClaims, headClaims, hvars, life>>
    /\ Observe

\* ---- Fifo1 --------------------------------------------------------------
\* Fifo1::size: assert!(push_cursor >= pop_cursor); push_cursor - pop_cursor
SizeAssert == push_cursor >= pop_cursor
size == push_cursor - pop_cursor
\* a slip in is_full: one more item than the ring holds is accepted
is_full_one_late == capacity + 1 = size
is_full == capacity = size
is_empty == size = 0

Fifo1Push(t) ==
    /\ pc[t] = "push_begin"
    /\ variant = 1
    /\ IF ~SizeAssert
       THEN /\ panicked' = TRUE
            /\ Goto(t, "panic", loc[t])
            /\ UNCHANGED qvars
       ELSE IF is_full
       THEN /\ Goto(t, "push_done", [loc[t] EXCEPT !.ok = FALSE])
            /\ UNCHANGED <<qvars, panicked>>
       ELSE IF RemainderPanics
       THEN /\ panicked' = TRUE
            /\ Goto(t, "panic", loc[t])
            /\ UNCHANGED qvars
       ELSE /\ ring' = [ring EXCEPT ![push_cursor % capacity] = Some(loc[t].item)]
            /\ push_cursor' = push_cursor + 1
            /\ Goto(t, "push_done", [loc[t] EXCEPT !.ok = TRUE, !.cur = push_cursor])
            /\ UNCHANGED <<pop_cursor, cached_pop, cached_push, head, tail, turn, panicked>>
    /\ UNCHANGED <<cfg, pair, ghost>>
    /\ UNCHANGED <<hvars, life>>
    /\ Track(t)

Fifo1Pop(t) ==
    /\ pc[t] = "pop_begin"
    /\ variant = 1
    /\ IF ~SizeAssert
       THEN /\ panicked' = TRUE
            /\ Goto(t, "panic", loc[t])
            /\ UNCHANGED qvars
       ELSE IF is_empty
       THEN /\ Goto(t, "pop_done", [loc[t] EXCEPT !.ret = None])
            /\ UNCHANGED <<qvars, panicked>>
       ELSE IF RemainderPanics
       THEN /\ panicked' = TRUE
            /\ Goto(t, "panic", loc[t])
            /\ UNCHANGED qvars
       ELSE /\ ring' = [ring EXCEPT ![pop_cursor % capacity] = None]
            /\ pop_cursor' = pop_cursor + 1
            /\ Goto(t, "pop_done", [loc[t] EXCEPT !.ret = ring[pop_cursor % capacity],
                                                  !.cur = pop_cursor])
            /\ UNCHANGED <<push_cursor, cached_pop, cached_push, head, tail, turn, panicked>>
    /\ UNCHANGED <<cfg, pair, ghost>>
    /\ UNCHANGED <<hvars, life>>
    /\ Track(t)

\* ---- Fifo2, Fifo3 --------------------------------------------------------
\* slips in the two comparisons: `>` for `>=`, `<` for `==`
IsFullStrict(push_val, pop_val) == push_val > pop_val + capacity
\* another: the queue is taken for full with one cell still free
IsFullEarly(push_val, pop_val) == push_val + 1 >= pop_val + capacity
IsEmptyLess(push_val, pop_val) == push_val < pop_val

\* push: `push_val >= pop_val + self.capacity`
IsFull(push_val, pop_val) == push_val >= pop_val + capacity
\* pop: `push_val == pop_val`
IsEmpty(push_val, pop_val) == push_val = pop_val

\* let push_val = self.push_cursor.load(Relaxed)
Push2LoadPush(t) ==
    /\ pc[t] = "push_begin"
    /\ variant \in {2, 3}
    /\ Goto(t, "push_load_pop", [loc[t] EXCEPT !.cur = push_cursor])
    /\ UNCHANGED <<cfg, pair, qvars, panicked, ghost>>
    /\ UNCHANGED <<hvars, life>>
    /\ Track(t)

\* let pop_val = self.pop_cursor.load(Acquire); if full { return false }
Push2LoadPop(t) ==
    /\ pc[t] = "push_load_pop"
    /\ IF IsFull(loc[t].cur, pop_cursor)
       THEN Goto(t, "push_done", [loc[t] EXCEPT !.seen = pop_cursor, !.ok = FALSE])
       ELSE Goto(t, "push_write", [loc[t] EXCEPT !.seen = pop_cursor])
    /\ UNCHANGED <<cfg, pair, qvars, panicked, ghost>>
    /\ UNCHANGED <<hvars, life>>
    /\ Track(t)

\* *self.ring[loc].get() = Some(item)        (Fifo5: slot_ptr.write(..))
PushWrite(t) ==
    /\ pc[t] = "push_write"
    /\ variant \in 2..5
    /\ IF RemainderPanics
       THEN /\ panicked' = TRUE
            /\ Goto(t, "panic", loc[t])
            /\ UNCHANGED ring
       ELSE /\ \E cell \in WriteOutcomes(t, RingLoc(loc[t].cur), loc[t].item) :
                  ring' = [ring EXCEPT ![RingLoc(loc[t].cur)] = cell]
            /\ Goto(t, "push_store", loc[t])
            /\ UNCHANGED panicked
    /\ UNCHANGED <<push_cursor, pop_cursor, cached_pop, cached_push, head, tail, turn>>
    /\ UNCHANGED <<cfg, pair, ghost>>
    /\ UNCHANGED <<hvars, life>>
    /\ Track(t)

\* self.push_cursor.store(push_val + 1, Release); return true
PushStore(t) ==
    /\ pc[t] = "push_store"
    /\ variant \in 2..5
    /\ push_cursor' = loc[t].cur + 1
    /\ Goto(t, "push_done", [loc[t] EXCEPT !.ok = TRUE])
    /\ UNCHANGED <<ring, pop_cursor, cached_pop, cached_push, head, tail, turn>>
    /\ UNCHANGED <<cfg, pair, panicked, ghost>>
    /\ UNCHANGED <<hvars, life>>
    /\ Track(t)

\* let push_val = self.push_cursor.load(Acquire)
Pop2LoadPush(t) ==
    /\ pc[t] = "pop_begin"
    /\ variant \in {2, 3}
    /\ Goto(t, "pop_load_pop", [loc[t] EXCEPT !.seen = push_cursor])
    /\ UNCHANGED <<cfg, pair, qvars, panicked, ghost>>
    /\ UNCHANGED <<hvars, life>>
    /\ Track(t)

\* let pop_val = self.pop_cursor.load(Relaxed); if empty { return None }
Pop2LoadPop(t) ==
    /\ pc[t] = "pop_load_pop"
    /\ IF IsEmpty(loc[t].seen, pop_cursor)
       THEN Goto(t, "pop_done", [loc[t] EXCEPT !.cur = pop_cursor, !.ret = None])
       ELSE Goto(t, "pop_read", [loc[t] EXCEPT !.cur = pop_cursor])
    /\ UNCHANGED <<cfg, pair, qvars, panicked, ghost>>
    /\ UNCHANGED <<hvars, life>>
    /\ Track(t)

\* let value = (*self.ring[loc].get()).take()
PopTake(t) ==
    /\ pc[t] = "pop_read"
    /\ variant \in 2..4
    /\ IF RemainderPanics
       THEN /\ panicked' = TRUE
            /\ Goto(t, "panic", loc[t])
            /\ UNCHANGED ring
       ELSE /\ \E value \in TakeOutcomes(t, RingLoc(loc[t].cur)) :
                  Goto(t, "pop_store", [loc[t] EXCEPT !.ret = value])
            /\ ring' = [ring EXCEPT ![RingLoc(loc[t].cur)] = None]
            /\ UNCHANGED panicked
    /\ UNCHANGED <<push_cursor, pop_cursor, cached_pop, cached_push, head, tail, turn>>
    /\ UNCHANGED <<cfg, pair, ghost>>
    /\ UNCHANGED <<hvars, life>>
    /\ Track(t)

\* self.pop_cursor.store(pop_val + 1, Release); value
PopStore(t) ==
    /\ pc[t] = "pop_store"
    /\ variant \in 2..5
    /\ pop_cursor' = loc[t].cur + 1
    /\ Goto(t, "pop_done", loc[t])
    /\ UNCHANGED <<ring, push_cursor, cached_pop, cached_push, head, tail, turn>>
    /\ UNCHANGED <<cfg, pair, panicked, ghost>>
    /\ UNCHANGED <<hvars, life>>
    /\ Track(t)

\* ---- Fifo4, Fifo5 --------------------------------------------------------
\* a slip in the comparison: `>` for `>=`
LooksEmptyStrict(pop_val, cached) == pop_val > cached

\* pop: `pop_val >= cached_push`
LooksEmpty(pop_val, cached) == pop_val >= cached

\* let push_val = push_cursor.load(Relaxed); let mut cached_pop = *cached_pop;
\* if push_val >= cached_pop + self.capacity { .. }
Push4Check(t) ==
    /\ pc[t] = "push_begin"
    /\ variant \in {4, 5}
    /\ IF IsFull(push_cursor, cached_pop)
       THEN Goto(t, "push_refresh", [loc[t] EXCEPT !.cur = push_cursor, !.seen = cached_pop])
       ELSE Goto(t, "push_write", [loc[t] EXCEPT !.cur = push_cursor, !.seen = cached_pop])
    /\ UNCHANGED <<cfg, pair, qvars, panicked, ghost>>
    /\ UNCHANGED <<hvars, life>>
    /\ Track(t)

\* a slip in the refresh: push_val is stored into the shadow, not actual_pop
Push4RefreshStoresPushVal(t) ==
    /\ pc[t] = "push_refresh"
    /\ cached_pop' = loc[t].cur
    /\ IF IsFull(loc[t].cur, pop_cursor)
       THEN Goto(t, "push_done", [loc[t] EXCEPT !.seen = pop_cursor, !.ok = FALSE])
       ELSE Goto(t, "push_write", [loc[t] EXCEPT !.seen = pop_cursor])
    /\ UNCHANGED <<ring, push_cursor, pop_cursor, cached_push, head, tail, turn>>
    /\ UNCHANGED <<cfg, pair, panicked, ghost>>
    /\ UNCHANGED <<hvars, life>>
    /\ Track(t)

\* let actual_pop = pop_cursor.load(Acquire); *cached_pop = actual_pop;
\* if push_val >= cached_pop + self.capacity { return false }
Push4Refresh(t) ==
    /\ pc[t] = "push_refresh"
    /\ cached_pop' = pop_cursor
    /\ IF IsFull(loc[t].cur, pop_cursor)
       THEN Goto(t, "push_done", [loc[t] EXCEPT !.seen = pop_cursor, !.ok = FALSE])
       ELSE Goto(t, "push_write", [loc[t] EXCEPT !.seen = pop_cursor])
    /\ UNCHANGED <<ring, push_cursor, pop_cursor, cached_push, head, tail, turn>>
    /\ UNCHANGED <<cfg, pair, panicked, ghost>>
    /\ UNCHANGED <<hvars, life>>
    /\ Track(t)

\* let pop_val = pop_cursor.load(Relaxed); let mut cached_push = *cached_push;
\* if pop_val >= cached_push { .. }
Pop4Check(t) ==
    /\ pc[t] = "pop_begin"
    /\ variant \in {4, 5}
    /\ IF LooksEmpty(pop_cursor, cached_push)
       THEN Goto(t, "pop_refresh", [loc[t] EXCEPT !.cur = pop_cursor, !.seen = cached_push])
       ELSE Goto(t, "pop_read", [loc[t] EXCEPT !.cur = pop_cursor, !.seen = cached_push])
    /\ UNCHANGED <<cfg, pair, qvars, panicked, ghost>>
    /\ UNCHANGED <<hvars, life>>
    /\ Track(t)

\* a slip in the refresh: the value loaded is stored into the producer's shadow
Pop4RefreshWritesCachedPop(t) ==
    /\ pc[t] = "pop_refresh"
    /\ cached_pop' = push_cursor
    /\ IF LooksEmpty(loc[t].cur, push_cursor)
       THEN Goto(t, "pop_done", [loc[t] EXCEPT !.seen = push_cursor, !.ret = None])
       ELSE Goto(t, "pop_read", [loc[t] EXCEPT !.seen = push_cursor])
    /\ UNCHANGED <<ring, push_cursor, pop_cursor, cached_push, head, tail, turn>>
    /\ UNCHANGED <<cfg, pair, panicked, ghost>>
    /\ UNCHANGED <<hvars, life>>
    /\ Track(t)

\* a slip in the refresh: the shadow is stored one past the value loaded
Pop4RefreshOneAhead(t) ==
    /\ pc[t] = "pop_refresh"
    /\ cached_push' = push_cursor + 1
    /\ IF LooksEmpty(loc[t].cur, push_cursor + 1)
       THEN Goto(t, "pop_done", [loc[t] EXCEPT !.seen = push_cursor + 1, !.ret = None])
       ELSE Goto(t, "pop_read", [loc[t] EXCEPT !.seen = push_cursor + 1])
    /\ UNCHANGED <<ring, push_cursor, pop_cursor, cached_pop, head, tail, turn>>
    /\ UNCHANGED <<cfg, pair, panicked, ghost>>
    /\ UNCHANGED <<hvars, life>>
    /\ Track(t)

\* let actual_push = push_cursor.load(Acquire); *cached_push = actual_push;
\* if pop_val >= cached_push { return None }
Pop4Refresh(t) ==
    /\ pc[t] = "pop_refresh"
    /\ cached_push' = push_cursor
    /\ IF LooksEmpty(loc[t].cur, push_cursor)
       THEN Goto(t, "pop_done", [loc[t] EXCEPT !.seen = push_cursor, !.ret = None])
       ELSE Goto(t, "pop_read", [loc[t] EXCEPT !.seen = push_cursor])
    /\ UNCHANGED <<ring, push_cursor, pop_cursor, cached_pop, head, tail, turn>>
    /\ UNCHANGED <<cfg, pair, panicked, ghost>>
    /\ UNCHANGED <<hvars, life>>
    /\ Track(t)

\* Fifo5: let value = self.ring[loc].as_ptr().read(); the cell is not written
Pop5Read(t) ==
    /\ pc[t] = "pop_read"
    /\ variant = 5
    /\ IF RemainderPanics
       THEN /\ panicked' = TRUE
            /\ Goto(t, "panic", loc[t])
       ELSE /\ \E value \in ReadOutcomes(t, RingLoc(loc[t].cur)) :
                  Goto(t, "pop_store", [loc[t] EXCEPT !.ret = value])
            /\ UNCHANGED panicked
    /\ UNCHANGED <<cfg, pair, qvars, ghost>>
    /\ UNCHANGED <<hvars, life>>
    /\ Track(t)

\* ---- Fifo6 (fifo6a) ------------------------------------------------------
\* a plain store in place of the compare_exchange: it always goes through
CompareExchangeAlwaysOk(value, current) == TRUE

\* self.head.0.compare_exchange(head, head.wrapping_add(1), SeqCst, Relaxed).is_ok()
CompareExchangeOk(value, current) == value = current

\* a slip in the turn test: a slot that lags behind is taken for ready
SlotReadyOrBehind(diff) == as_isize(diff) <= 0

\* `if diff == 0 {`: the slot is at the turn the caller needs
SlotReady(diff) == diff = 0

\* a slip in pop's difference: the `+ 1` left out
PopDiffNoIncrement(turn_val, head_val) == wrapping_sub(turn_val, head_val)

\* a slip in push's difference: the operands the other way round
PushDiffSwapped(turn_val, tail_val) == wrapping_sub(tail_val, turn_val)

\* push: let diff = turn.wrapping_sub(tail)
PushDiff(turn_val, tail_val) == wrapping_sub(turn_val, tail_val)
\* pop: let diff = turn.wrapping_sub(head.wrapping_add(1))
PopDiff(turn_val, head_val) == wrapping_sub(turn_val, wrapping_add(head_val, 1))
\* push: slot.turn.store(tail.wrapping_add(1), Release)
PushTurn(tail_val) == wrapping_add(tail_val, 1)
\* pop: slot.turn.store(head.wrapping_add(self.capacity), Release)
PopTurn(head_val) == wrapping_add(head_val, capacity)

\* loop { let tail = self.tail.0.load(Relaxed); let slot = &self.ring[index];
Push6LoadTail(t) ==
    /\ pc[t] = "push_begin"
    /\ variant = 6
    /\ Goto(t, "push_load_turn", [loc[t] EXCEPT !.cur = tail])
    /\ UNCHANGED <<cfg, pair, qvars, panicked, ghost>>
    /\ UNCHANGED <<hvars, life>>
    /\ Track(t)

\* let turn = slot.turn.load(Acquire); diff == 0: go on to the CAS;
\* (diff as isize) < 0: return false; otherwise go round the loop again
Push6LoadTurn(t) ==
    /\ pc[t] = "push_load_turn"
    /\ LET turn_val == turn[RingIndex(loc[t].cur)]
           diff == PushDiff(turn_val, loc[t].cur)
       IN  IF SlotReady(diff)
           THEN Goto(t, "push_cas", [loc[t] EXCEPT !.seen = turn_val])
           ELSE IF as_isize(diff) < 0
           THEN Goto(t, "push_done", [loc[t] EXCEPT !.seen = turn_val, !.ok = FALSE])
           ELSE Goto(t, "push_begin", [loc[t] EXCEPT !.cur = 0])
    /\ UNCHANGED <<cfg, pair, qvars, panicked, ghost>>
    /\ UNCHANGED <<hvars, life>>
    /\ Track(t)

\* if self.tail.0.compare_exchange(tail, tail.wrapping_add(1), ..).is_ok() { .. }
\* and the loop again when it fails
Push6Cas(t) ==
    /\ pc[t] = "push_cas"
    /\ IF CompareExchangeOk(tail, loc[t].cur)
       THEN /\ tail' = wrapping_add(loc[t].cur, 1)
            /\ tailClaims' = Append(tailClaims, loc[t].item)
            /\ Goto(t, "push_write", [loc[t] EXCEPT !.gpos = Len(tailClaims)])
       ELSE /\ UNCHANGED <<tail, tailClaims>>
            /\ Goto(t, "push_begin", [loc[t] EXCEPT !.cur = 0, !.seen = 0])
    /\ UNCHANGED <<ring, push_cursor, pop_cursor, cached_pop, cached_push, head, turn>>
    /\ UNCHANGED <<cfg, pair, panicked, sent, pushed, popped, hist, headClaims>>
    /\ UNCHANGED <<hvars, life>>
    /\ Track(t)

\* slot.data.get().write(MaybeUninit::new(item))
Push6Write(t) ==
    /\ pc[t] = "push_write"
    /\ variant = 6
    /\ \E cell \in WriteOutcomes(t, RingIndex(loc[t].cur), loc[t].item) :
          ring' = [ring EXCEPT ![RingIndex(loc[t].cur)] = cell]
    /\ Goto(t, "push_store", loc[t])
    /\ UNCHANGED <<push_cursor, pop_cursor, cached_pop, cached_push, head, tail, turn>>
    /\ UNCHANGED <<cfg, pair, panicked, ghost>>
    /\ UNCHANGED <<hvars, life>>
    /\ Track(t)

\* slot.turn.store(tail.wrapping_add(1), Release); return true
Push6StoreTurn(t) ==
    /\ pc[t] = "push_store"
    /\ variant = 6
    /\ turn' = [turn EXCEPT ![RingIndex(loc[t].cur)] = PushTurn(loc[t].cur)]
    /\ Goto(t, "push_done", [loc[t] EXCEPT !.ok = TRUE])
    /\ UNCHANGED <<ring, push_cursor, pop_cursor, cached_pop, cached_push, head, tail>>
    /\ UNCHANGED <<cfg, pair, panicked, ghost>>
    /\ UNCHANGED <<hvars, life>>
    /\ Track(t)

\* loop { let head = self.head.0.load(Relaxed); let slot = &self.ring[index];
Pop6LoadHead(t) ==
    /\ pc[t] = "pop_begin"
    /\ variant = 6
    /\ Goto(t, "pop_load_turn", [loc[t] EXCEPT !.cur = head])
    /\ UNCHANGED <<cfg, pair, qvars, panicked, ghost>>
    /\ UNCHANGED <<hvars, life>>
    /\ Track(t)

\* let turn = slot.turn.load(Acquire); diff == 0: go on to the CAS;
\* (diff as isize) < 0: return None; otherwise go round the loop again
Pop6LoadTurn(t) ==
    /\ pc[t] = "pop_load_turn"
    /\ LET turn_val == turn[RingIndex(loc[t].cur)]
           diff == PopDiff(turn_val, loc[t].cur)
       IN  IF SlotReady(diff)
           THEN Goto(t, "pop_cas", [loc[t] EXCEPT !.seen = turn_val])
           ELSE IF as_isize(diff) < 0
           THEN Goto(t, "pop_done", [loc[t] EXCEPT !.seen = turn_val, !.ret = None])
           ELSE Goto(t, "pop_begin", [loc[t] EXCEPT !.cur = 0])
    /\ UNCHANGED <<cfg, pair, qvars, panicked, ghost>>
    /\ UNCHANGED <<hvars, life>>
    /\ Track(t)

\* if self.head.0.compare_exchange(head, head.wrapping_add(1), ..).is_ok() { .. }
Pop6Cas(t) ==
    /\ pc[t] = "pop_cas"
    /\ IF CompareExchangeOk(head, loc[t].cur)
       THEN /\ head' = wrapping_add(loc[t].cur, 1)
            /\ headClaims' = headClaims + 1
            /\ Goto(t, "pop_read", [loc[t] EXCEPT !.gpos = headClaims])
       ELSE /\ UNCHANGED <<head, headClaims>>
            /\ Goto(t, "pop_begin", [loc[t] EXCEPT !.cur = 0, !.seen = 0])
    /\ UNCHANGED <<ring, push_cursor, pop_cursor, cached_pop, cached_push, tail, turn>>
    /\ UNCHANGED <<cfg, pair, panicked, sent, pushed, popped, hist, tailClaims>>
    /\ UNCHANGED <<hvars, life>>
    /\ Track(t)

\* let data = slot.data.get().read().assume_init()
Pop6Read(t) ==
    /\ pc[t] = "pop_read"
    /\ variant = 6
    /\ \E data \in ReadOutcomes(t, RingIndex(loc[t].cur)) :
          Goto(t, "pop_store", [loc[t] EXCEPT !.ret = data])
    /\ UNCHANGED <<cfg, pair, qvars, panicked, ghost>>
    /\ UNCHANGED <<hvars, life>>
    /\ Track(t)

\* slot.turn.store(head.wrapping_add(self.capacity), Release); return Some(data)
Pop6StoreTurn(t) ==
    /\ pc[t] = "pop_store"
    /\ variant = 6
    /\ turn' = [turn EXCEPT ![RingIndex(loc[t].cur)] = PopTurn(loc[t].cur)]
    /\ Goto(t, "pop_done", loc[t])
    /\ UNCHANGED <<ring, push_cursor, pop_cursor, cached_pop, cached_push, head, tail>>
    /\ UNCHANGED <<cfg, pair, panicked, ghost>>
    /\ UNCHANGED <<hvars, life>>
    /\ Track(t)

\* ---- destruction of the queue --------------------------------------------
\* The queue is destroyed once no call is in progress (drop takes &mut self).
\* Items are values of a type T with a destructor (needs_drop::<T>()).
AllIdle == \A t \in Threads : pc[t] = "idle"

\* a slip in the loop bounds of Fifo5's drop: from the first cell, not from pop
DropRangeFromZero == 0 .. push_cursor - 1
\* Fifo5::drop: for i in pop..push
DropRange == pop_cursor .. push_cursor - 1

\* self.ring[loc].as_mut_ptr().drop_in_place(): destroys what the cell holds;
\* on a cell holding no value it destroys garbage
InPlaceOutcomes(i) == IF ring[i] = None THEN Garbage ELSE {ring[i]}

\* Fifo5::drop: the items destroyed, in loop order
Drop5Outcomes ==
    LET n  == Cardinality(DropRange)
        lo == CHOOSE i \in DropRange : \A j \in DropRange : i <= j
    IN  {d \in [1 .. n -> 0 .. PushLimit - 1] :
            \A k \in 1 .. n : Some(d[k]) \in InPlaceOutcomes((lo + k - 1) % capacity)}

\* Fifo1..4 have no Drop impl: the Vec of Option<T> cells is dropped field by
\* field, which destroys the item of every cell that is Some.
OptionCellsDropped ==
    LET cells == SelectSeq([k \in 1 .. capacity |-> ring[k - 1]], LAMBDA c : c # None)
    IN  [k \in 1 .. Len(cells) |-> cells[k][1]]

\* Fifo6 has no Drop impl and its cells are MaybeUninit<T>, whose drop does
\* nothing: no item is destroyed.
MaybeUninitCellsDropped == <<>>

Drop ==
    /\ live
    /\ AllIdle
    /\ live' = FALSE
    /\ \E d \in (IF variant = 5 THEN Drop5Outcomes
                 ELSE IF variant = 6 THEN {MaybeUninitCellsDropped}
                 ELSE {OptionCellsDropped}) : dropped' = d
    /\ UNCHANGED <<cfg, pair, qvars, tvars, ghost, hvars>>

\* one step of thread t inside push or pop
QueueStep(t) ==
        \/ Fifo1Push(t)
        \/ Fifo1Pop(t)
        \/ Push2LoadPush(t)
        \/ Push2LoadPop(t)
        \/ PushWrite(t)
        \/ PushStore(t)
        \/ Pop2LoadPush(t)
        \/ Pop2LoadPop(t)
        \/ PopTake(t)
        \/ PopStore(t)
        \/ Push4Check(t)
        \/ Push4Refresh(t)
        \/ Pop4Check(t)
        \/ Pop4Refresh(t)
        \/ Pop5Read(t)
        \/ Push6LoadTail(t)
        \/ Push6LoadTurn(t)
        \/ Push6Cas(t)
        \/ Push6Write(t)
        \/ Push6StoreTurn(t)
        \/ Pop6LoadHead(t)
        \/ Pop6LoadTurn(t)
        \/ Pop6Cas(t)
        \/ Pop6Read(t)
        \/ Pop6StoreTurn(t)

\* one step of thread t: a call, a step inside it, or its return
Step(t) ==
        \/ PushCall(t)
        \/ PopCall(t)
        \/ PushReturn(t)
        \/ PopReturn(t)
        \/ QueueStep(t)

Next == (\E t \in Threads : Step(t)) \/ Drop

Spec == Init /\ [][Next]_vars

Observed == ObservedInit /\ [][Next]_vars

\* ---- run_benchmark ----------------------------------------------------------
\* The benchmark of each variant: the main thread pushes 0 .. iters-1, each
\* until its push returns true, then stores done; a spawned consumer pops and
\* validates.  Fifo1 is used under a Mutex (its pop and push are one step).
\*
\* cons, lock-free variants (fifo2 lines 100-116, same loop in fifo3..fifo6a):
\*   "pop"        queue_consumer.pop() at the head of the loop
\*   "load_done"  that pop was None: done_consumer.load(Acquire)
\*   "pop_again"  done was true: queue_consumer.pop().is_none()
\* cons, fifo1 (lines 71-95):
\*   "while"      while !done_consumer.load(Acquire)
\*   "inner"      the inner loop: lock, guard.pop()
\*   "drain"      the final drain loop: lock, guard.pop()
\* both: "exit" the closure returned, "assert" an assert_eq! failed
HarnessCaps(v) == {c \in 0 .. MaxHarnessCap : NewAccepts(v, c)}

HarnessInit ==
    /\ mode = "spsc"
    /\ \E v \in 1..6 : \E c \in HarnessCaps(v) :
          /\ New(v, c)
          /\ cons = IF v = 1 THEN "while" ELSE "pop"
    /\ InitRest
    /\ iters \in 0 .. MaxIters
    /\ observing = TRUE

\* for i in 0..iters { loop { if queue.push(i) { break; } spin_loop() } }
ProducerPush(t) ==
    /\ t = "p0"
    /\ pc[t] = "idle"
    /\ sent[t] < iters
    /\ Goto(t, "push_begin", [NoLocals EXCEPT !.item = sent[t]])
    /\ modified' = [modified EXCEPT ![t] = FALSE]
    /\ UNCHANGED <<cfg, pair, qvars, panicked, ghost, hvars, life>>
    /\ Observe

\* done.store(true, Release)
ProducerDone(t) ==
    /\ t = "p0"
    /\ pc[t] = "idle"
    /\ sent[t] = iters
    /\ ~done
    /\ done' = TRUE
    /\ UNCHANGED <<cfg, pair, qvars, tvars, ghost, expected, iters, cons, life>>

\* the consumer calls pop
ConsumerPop(t) ==
    /\ t = "c0"
    /\ pc[t] = "idle"
    /\ cons \in {"pop", "pop_again", "inner", "drain"}
    /\ Goto(t, "pop_begin", NoLocals)
    /\ modified' = [modified EXCEPT ![t] = FALSE]
    /\ UNCHANGED <<cfg, pair, qvars, panicked, ghost, hvars, life>>
    /\ Observe

\* the pop of the consumer returns to the loop
Returned(t) ==
    /\ Goto(t, "idle", NoLocals)
    /\ modified' = [modified EXCEPT ![t] = FALSE]
    /\ popped' = IF loc[t].ret # None THEN Append(popped, loc[t].ret[1]) ELSE popped
    /\ UNCHANGED <<cfg, pair, qvars, panicked, sent, pushed, hist, tailClaims, headClaims>>
    /\ UNCHANGED <<done, iters, life>>
    /\ Observe

\* assert_eq!(val, expected); expected += 1; then on to `after`
Validate(val, after) ==
    IF val = expected
    THEN expected' = expected + 1 /\ cons' = after
    ELSE expected' = expected /\ cons' = "assert"

\* if let Some(val) = queue_consumer.pop() { assert_eq!; expected += 1 } else { .. }
ConsumerLoop(t) ==
    /\ pc[t] = "pop_done"
    /\ cons = "pop"
    /\ IF loc[t].ret # None
       THEN Validate(loc[t].ret[1], "pop")
       ELSE expected' = expected /\ cons' = "load_done"
    /\ Returned(t)

\* if done_consumer.load(Acquire) { .. } else { spin_loop() }
ConsumerLoadDone(t) ==
    /\ t = "c0"
    /\ cons = "load_done"
    /\ cons' = IF done THEN "pop_again" ELSE "pop"
    /\ UNCHANGED <<cfg, pair, qvars, tvars, ghost, done, expected, iters, life>>

\* if queue_consumer.pop().is_none() { break; }   a Some(val) is dropped here
ConsumerPopAgain(t) ==
    /\ pc[t] = "pop_done"
    /\ cons = "pop_again"
    /\ cons' = IF loc[t].ret = None THEN "exit" ELSE "pop"
    /\ expected' = expected
    /\ Returned(t)

\* fifo1: while !done_consumer.load(Acquire)
Consumer1While(t) ==
    /\ t = "c0"
    /\ cons = "while"
    /\ cons' = IF done THEN "drain" ELSE "inner"
    /\ UNCHANGED <<cfg, pair, qvars, tvars, ghost, done, expected, iters, life>>

\* fifo1: loop { lock; if let Some(val) = guard.pop() { assert_eq!; expected += 1; break } }
Consumer1Inner(t) ==
    /\ pc[t] = "pop_done"
    /\ cons = "inner"
    /\ IF loc[t].ret # None
       THEN Validate(loc[t].ret[1], "while")
       ELSE expected' = expected /\ cons' = "inner"
    /\ Returned(t)

\* fifo1: loop { lock; if let Some(val) = guard.pop() { assert_eq!; expected += 1 } else { break } }
Consumer1Drain(t) ==
    /\ pc[t] = "pop_done"
    /\ cons = "drain"
    /\ IF loc[t].ret # None
       THEN Validate(loc[t].ret[1], "drain")
       ELSE expected' = expected /\ cons' = "exit"
    /\ Returned(t)

HarnessStep(t) ==
        \/ ProducerPush(t)
        \/ PushReturn(t)
        \/ ProducerDone(t)
        \/ ConsumerPop(t)
        \/ ConsumerLoop(t)
        \/ ConsumerLoadDone(t)
        \/ ConsumerPopAgain(t)
        \/ Consumer1While(t)
        \/ Consumer1Inner(t)
        \/ Consumer1Drain(t)
        \/ QueueStep(t)

HarnessNext == \E t \in Threads : HarnessStep(t)

\* The two threads are scheduled fairly: a thread that can take a step
\* eventually takes one.
Harness == HarnessInit /\ [][HarnessNext]_vars /\ \A t \in {"p0", "c0"} : WF_vars(HarnessStep(t))

\* ======================= properties ======================================
Range(q) == {q[i] : i \in 1 .. Len(q)}
NoDuplicates(q) == \A i, j \in 1 .. Len(q) : i # j => q[i] # q[j]
\* the popped items are 0, 1, 2, ... in this order
InPushOrder(q) == \A i \in 1 .. Len(q) : q[i] = i - 1
Quiescent == AllIdle
\* t has taken an item out and is about to return it / returning it
Holds(t) == pc[t] \in {"pop_store", "pop_done"} /\ loc[t].ret # None

\* C1: Fifo2..Fifo5, one producer pushing 0,1,2,.. and one consumer, steps
\* interleaved: the items returned by pops are a prefix of the pushed sequence
\* (no gap, no duplicate, no reordering), and a pop that advances pop_cursor
\* returns Some of the item pushed at that position, never None.
C1_SpscPopsArePrefix ==
    (mode = "spsc" /\ variant \in 2..5 /\ capacity >= 1) =>
        /\ InPushOrder(popped)
        /\ Len(popped) <= push_cursor
        /\ \A t \in Threads :
              pc[t] \in {"pop_store", "pop_done"} /\ (pc[t] = "pop_store" \/ modified[t])
                  => loc[t].ret = Some(loc[t].cur)

C1_Witness ==
    /\ mode = "spsc" /\ variant \in 2..5 /\ capacity = 2
    /\ popped = <<0, 1, 2>>
    /\ pc["c0"] = "pop_done" /\ modified["c0"] /\ loc["c0"].ret = Some(3)

\* C2: turn-based queue, capacity >= 2, several producers and consumers: no
\* item is returned twice, every returned item was pushed (claimed and written)
\* once, every item whose push returned true is in exactly one place (returned,
\* held by a consumer, or still stored for a pop to come), and once the queue
\* is drained the popped items are exactly the successfully pushed ones.
StoredForLater(v) ==
    \E k \in 1 .. Len(tailClaims) :
        /\ tailClaims[k] = v
        /\ \/ k > headClaims
           \/ \E t \in Threads : pc[t] = "pop_read" /\ loc[t].gpos = k - 1
        /\ ring[RingIndex(k - 1)] = Some(v)

C2_TurnNoLossNoDuplicate ==
    (mode = "mpmc" /\ variant = 6 /\ capacity >= 2) =>
        /\ NoDuplicates(popped)
        /\ NoDuplicates(tailClaims)
        /\ Range(popped) \subseteq Range(tailClaims)
        /\ \A t \in Threads : Holds(t) =>
              /\ loc[t].ret[1] \notin Range(popped)
              /\ loc[t].ret[1] \in Range(tailClaims)
              /\ \A u \in Threads \ {t} : Holds(u) => loc[u].ret # loc[t].ret
        /\ \A v \in pushed :
              \/ v \in Range(popped)
              \/ \E t \in Threads : Holds(t) /\ loc[t].ret = Some(v)
              \/ StoredForLater(v)
        /\ (Quiescent /\ head = tail) => Range(popped) = pushed

C2_Witness ==
    /\ mode = "mpmc" /\ variant = 6 /\ capacity = 2
    /\ Quiescent /\ head = tail
    /\ tailClaims = <<0, 1, 2, 3>>
    /\ popped = <<1, 0, 3, 2>>

\* C3: turn-based queue, capacity >= 2: the pop whose CAS claimed head value h
\* returns the item of the push whose CAS claimed tail value h; with one
\* producer and one consumer the consumer gets the items in push order.
C3_TurnClaimOrder ==
    (variant = 6 /\ capacity >= 2 /\ mode \in {"spsc", "mpmc"}) =>
        /\ \A t \in Threads : Holds(t) =>
              /\ loc[t].gpos < Len(tailClaims)
              /\ loc[t].ret = Some(tailClaims[loc[t].gpos + 1])
        /\ mode = "spsc" => InPushOrder(popped)

C3_Witness ==
    /\ variant = 6 /\ mode = "mpmc"
    /\ tailClaims = <<1, 0, 3>>
    /\ pc["c1"] = "pop_done" /\ loc["c1"].gpos = 2 /\ loc["c1"].ret = Some(3)
    /\ pc["c0"] = "pop_store" /\ loc["c0"].gpos = 1 /\ loc["c0"].ret = Some(0)

\* ---- single-threaded histories ------------------------------------------
\* the contents of a reference bounded FIFO of capacity c after the calls of h
RECURSIVE RefQueue(_, _)
RefQueue(h, c) ==
    IF h = <<>> THEN <<>>
    ELSE LET q == RefQueue(SubSeq(h, 1, Len(h) - 1), c)
             e == h[Len(h)]
         IN  IF e.op = "push"
             THEN IF Len(q) < c THEN Append(q, e.arg[1]) ELSE q
             ELSE IF q = <<>> THEN q ELSE Tail(q)

\* every call of h returned what the reference FIFO returns
AgreesWithReference(h, c) ==
    \A n \in 1 .. Len(h) :
        LET q == RefQueue(SubSeq(h, 1, n - 1), c)
            e == h[n]
        IN  IF e.op = "push"
            THEN e.ok = (Len(q) < c)
            ELSE e.ret = (IF q = <<>> THEN None ELSE Some(Head(q)))

AllPushes(h, a, b) == \A i \in a .. b : h[i].op = "push"

\* C pushes succeed, the (C+1)-th fails, and after one pop the next succeeds
FullAfterCapacity(h, c) ==
    /\ \A n \in 1 .. Len(h) : AllPushes(h, 1, n) =>
          /\ n <= c => h[n].ok
          /\ n = c + 1 => ~h[n].ok
    /\ \A n \in c + 3 .. Len(h) :
          (AllPushes(h, 1, n - 2) /\ h[n - 1].op = "pop" /\ h[n].op = "push")
              => (h[n - 1].ok /\ h[n].ok)

\* C4: every variant, calls from a single thread: each call returns what a
\* reference bounded FIFO of the same capacity returns (pops give the pushed
\* items in push order, each equal to the item pushed).
C4_SeqAgreesWithReference ==
    mode = "seq" => AgreesWithReference(hist, capacity)

\* C5: Fifo1..Fifo5, every capacity C >= 1, from a new queue: C pushes in a
\* row return true, the (C+1)-th returns false, and after one successful pop
\* the next push returns true.
C5_CursorFullAfterCapacity ==
    (mode = "seq" /\ variant \in 1..5 /\ capacity >= 1) => FullAfterCapacity(hist, capacity)

C5_Witness ==
    /\ mode = "seq" /\ variant \in 1..5 /\ capacity = 2
    /\ Len(hist) = 5
    /\ AllPushes(hist, 1, 3) /\ ~hist[3].ok
    /\ hist[4].op = "pop" /\ hist[4].ret = Some(0)
    /\ hist[5].op = "push" /\ hist[5].ok

\* C6: turn-based queue, every capacity its constructor accepts (C = 1
\* included): C pushes in a row return true, the (C+1)-th returns false and
\* overwrites nothing, and after one successful pop the next push returns true.
C6_TurnFullAfterCapacity ==
    (mode = "seq" /\ variant = 6) =>
        /\ FullAfterCapacity(hist, capacity)
        /\ \A n \in 1 .. Len(hist) :
              (AllPushes(hist, 1, n) /\ n = capacity + 1 /\ Len(hist) = n)
                  => \A i \in Slots : ring[i] = Some(RefQueue(hist, capacity)[i + 1])

\* Every use but the concurrent use of a turn-based queue of capacity 1, whose
\* racing accesses of its one cell leave the cell's content undefined.
RaceFreeUse == ~(variant = 6 /\ capacity = 1 /\ mode # "seq")

C8_CursorBounds ==
    variant \in 1..5 =>
        /\ pop_cursor <= push_cursor
        /\ push_cursor - pop_cursor <= capacity
        /\ ~panicked

C8_Witness ==
    /\ variant \in 2..5 /\ mode = "spsc" /\ capacity = 2
    /\ pop_cursor = 2 /\ push_cursor = 4
    /\ pc["c0"] = "pop_read"

\* C9: Fifo4/Fifo5, one producer and one consumer: a push that has passed its
\* space check has real space (push_cursor - pop_cursor < capacity), a pop
\* that has passed its data check has real data (pop_cursor < push_cursor).
C9_ShadowNeverFalseSuccess ==
    (variant \in {4, 5} /\ mode = "spsc") =>
        \A t \in Threads :
            /\ pc[t] = "push_write" =>
                  loc[t].cur = push_cursor /\ push_cursor - pop_cursor < capacity
            /\ pc[t] = "pop_read" =>
                  loc[t].cur = pop_cursor /\ pop_cursor < push_cursor

C9_Witness ==
    /\ variant \in {4, 5} /\ mode = "spsc"
    /\ pc["p0"] = "push_write" /\ loc["p0"].seen = cached_pop
    /\ cached_pop < pop_cursor
    /\ pc["c0"] = "pop_refresh"

\* C10: lock-free variants (Fifo2..5 with one producer and one consumer, the
\* turn-based queue with several of each and capacity >= 2): no two threads
\* are inside an access of the same cell at once; a cell is read only once its
\* write for that position is complete and published, and written only once
\* the read of the previous lap is complete.
C10_NoConcurrentSlotAccess ==
    (mode \in {"spsc", "mpmc"} /\ variant \in 2..6 /\ (variant = 6 => capacity >= 2)) =>
        /\ \A t, u \in Threads :
              (t # u /\ (Reading(t) \/ Writing(t)) /\ (Reading(u) \/ Writing(u)))
                  => CellOf(t) # CellOf(u)
        /\ \A t \in Threads : Reading(t) =>
              /\ ring[CellOf(t)] # None
              /\ IF variant = 6
                 THEN turn[CellOf(t)] = wrapping_add(loc[t].cur, 1)
                 ELSE loc[t].cur < push_cursor
        /\ \A t \in Threads : Writing(t) =>
              IF variant = 6
              THEN turn[CellOf(t)] = loc[t].cur
              ELSE loc[t].cur < pop_cursor + capacity

C10_Witness ==
    /\ mode = "mpmc" /\ variant = 6 /\ capacity = 2
    /\ Writing("p1") /\ Reading("c1") /\ pc["c0"] = "pop_done"
    /\ headClaims = 3

\* ---- destruction ------------------------------------------------------------
\* pushed and not popped
Remaining == pushed \ Range(popped)

\* C11: Fifo5, after any pushes and pops and then the queue's destruction:
\* destruction has run exactly once on each item pushed and not popped
\* (push_cursor - pop_cursor items, K for K pushes and no pop) and on no item
\* that was popped.
C11_Fifo5DropsRemaining ==
    (variant = 5 /\ ~live) =>
        /\ NoDuplicates(dropped)
        /\ Range(dropped) = Remaining
        /\ Len(dropped) = push_cursor - pop_cursor
        /\ Range(dropped) \cap Range(popped) = {}

C11_Witness ==
    /\ variant = 5 /\ ~live /\ capacity = 2 /\ mode = "spsc"
    /\ popped = <<0, 1, 2>>
    /\ dropped = <<3>>

\* C12: every variant, the turn-based queue included: destroying the queue
\* runs destruction on exactly the items pushed and not popped.
C12_DropDestroysRemaining ==
    ~live => (NoDuplicates(dropped) /\ Range(dropped) = Remaining)

\* ---- construction -----------------------------------------------------------
\* C13: new(capacity) returns no queue for capacity 0 (any variant) nor, in the
\* turn-based variant, for a capacity that is not a power of two: no call is
\* ever made on, or answered by, a queue of such a capacity.
C13_NoQueueOfBadCapacity ==
    (\E t \in Threads : pc[t] \in {"push_done", "pop_done"}) =>
        /\ capacity >= 1
        /\ variant = 6 => is_power_of_two(capacity)

\* ---- run_benchmark ----------------------------------------------------------
\* the consumer thread has ended: its closure returned, or an assert_eq! failed
ConsumerEnded == cons \in {"exit", "assert"}
\* items accepted by the queue and not yet handed to the consumer
ItemsQueued == sent["p0"] - Len(popped)

\* C14: lock-free harness, one producer pushing iters items and then setting
\* done: the consumer thread does not end before it has popped every one of
\* the items, and does not end while an item is still in the queue.  (Stated
\* for the queues whose cells are free of races: not the turn-based queue of
\* capacity 1.)
C14_ConsumerEndsDrained ==
    (variant \in 2..6 /\ ~(variant = 6 /\ capacity = 1) /\ ConsumerEnded) =>
        /\ Len(popped) = iters
        /\ ItemsQueued = 0

\* C15: fifo1 harness, fair scheduling: once the producer has pushed its
\* iters items and set done, the consumer leaves its main loop, drains and
\* terminates having validated iters items.
C15_LockedConsumerTerminates ==
    (variant = 1 /\ capacity >= 1 /\ done) ~> (cons = "exit" /\ expected = iters)

\* C16: harness of each lock-free variant: no assert_eq!(val, expected) of the
\* consumer fails, and when the consumer exits it has validated exactly iters
\* values.
C16_ConsumerValidatesAll ==
    (variant \in 2..6 /\ ~(variant = 6 /\ capacity = 1)) =>
        /\ cons # "assert"
        /\ cons = "exit" => expected = iters

\* ---- the turn-based queue, call by call ---------------------------------------
\* this step does not send thread t back to the head of the loop of push / pop:
\* its compare_exchange does not fail and the `diff > 0` branch is not taken
SinglePass(t) ==
    /\ pc[t] \in {"push_load_turn", "push_cas"} => pc'[t] # "push_begin"
    /\ pc[t] \in {"pop_load_turn", "pop_cas"} => pc'[t] # "pop_begin"

\* C17: turn-based queue used by one producer and one consumer, every capacity
\* the constructor accepts: each push and each pop returns after a single pass
\* of its loop.
C17_TurnSinglePass ==
    [][(variant = 6 /\ mode \in {"seq", "spsc"}) => \A t \in Threads : SinglePass(t)]_vars

\* ---- failures ------------------------------------------------------------------
\* the call of t is about to return false / None
PushFailed(t) == pc[t] = "push_done" /\ ~loc[t].ok
PopFailed(t) == pc[t] = "pop_done" /\ loc[t].ret = None

\* C18: turn-based queue, several producers and consumers, capacity >= 2: a
\* pop returns None only if at some instant of the call every item whose push
\* had returned true had been claimed by a pop; a push returns false only if
\* at some instant of the call the pushes that have claimed a slot less the
\* pops that have completed were capacity.
C18_TurnFailuresGenuine ==
    (variant = 6 /\ mode = "mpmc" /\ capacity >= 2) =>
        \A t \in Threads : (PushFailed(t) \/ PopFailed(t)) => instant[t]

\* C19: Fifo2..Fifo5, one producer and one consumer: a push returns false only
\* if at some instant of the call push_cursor - pop_cursor = capacity, a pop
\* returns None only if at some instant of the call push_cursor = pop_cursor;
\* a stale shadow alone produces no failure.
C19_CursorFailuresGenuine ==
    (variant \in 2..5 /\ mode = "spsc") =>
        \A t \in Threads : (PushFailed(t) \/ PopFailed(t)) => instant[t]

C19_Witness ==
    /\ variant \in {4, 5} /\ mode = "spsc" /\ capacity = 2
    /\ pc["c0"] = "pop_done" /\ loc["c0"].ret = None /\ pop_cursor = 1
    /\ pc["p0"] = "push_done" /\ ~loc["p0"].ok /\ cached_pop = 1

\* C20: turn protocol of the turn-based queue under any interleaving: slot i
\* starts with turn i; the producer that claimed tail value t writes its slot
\* at a moment when the slot's turn is t and then sets it to t+1; the consumer
\* that claimed head value h reads its slot at a moment when the slot's turn is
\* h+1 and then sets it to h+capacity; no slot's turn ever decreases.
C20_TurnProtocol ==
    /\ variant = 6 => \A i \in Slots : turn[i] = i
    /\ [][(variant = 6 /\ mode \in {"spsc", "mpmc"}) =>
            /\ \A i \in Slots : turn'[i] >= turn[i]
            /\ \A t \in Threads :
                  LET i == RingIndex(loc[t].cur)
                  IN  /\ (pc[t] = "push_write" /\ pc'[t] # "push_write") => turn[i] = loc[t].cur
                      /\ (pc[t] = "push_store" /\ pc'[t] # "push_store")
                            => turn'[i] = wrapping_add(loc[t].cur, 1)
                      /\ (pc[t] = "pop_read" /\ pc'[t] # "pop_read")
                            => turn[i] = wrapping_add(loc[t].cur, 1)
                      /\ (pc[t] = "pop_store" /\ pc'[t] # "pop_store")
                            => turn'[i] = wrapping_add(loc[t].cur, capacity)]_vars

\* ---- Fifo2::size called beside one producer and one consumer -------------
\* the threads that hold a reference to the queue: the producer, the consumer
\* and a third thread that only asks for the size
SizeCallers == {"p0", "c0", "p1"}

SizeInit ==
    /\ mode = "spsc"
    /\ \E c \in Caps(2) : New(2, c)
    /\ InitRest
    /\ iters = 0
    /\ cons = "pop"
    /\ observing = FALSE

\* queue.size()
Size2Call(t) ==
    /\ pc[t] = "idle"
    /\ t \in SizeCallers
    /\ variant = 2
    /\ ~panicked
    /\ live
    /\ Goto(t, "size_begin", NoLocals)
    /\ modified' = [modified EXCEPT ![t] = FALSE]
    /\ UNCHANGED <<cfg, pair, qvars, panicked, ghost, hvars, life>>
    /\ Observe

\* let push_val = self.push_cursor.load(Relaxed)
Size2LoadPush(t) ==
    /\ pc[t] = "size_begin"
    /\ Goto(t, "size_load_pop", [loc[t] EXCEPT !.cur = push_cursor])
    /\ UNCHANGED <<cfg, pair, qvars, panicked, ghost, hvars, life>>
    /\ Track(t)

\* a slip: the guard `if push_val < pop_val { return 0 }` is left out and the
\* subtraction wraps
Size2LoadPopUnguarded(t) ==
    /\ pc[t] = "size_load_pop"
    /\ Goto(t, "size_done", [loc[t] EXCEPT !.seen = pop_cursor,
                                            !.ret = Some(wrapping_sub(loc[t].cur, pop_cursor))])
    /\ UNCHANGED <<cfg, pair, qvars, panicked, ghost, hvars, life>>
    /\ Track(t)

\* let pop_val = self.pop_cursor.load(Relaxed);
\* if push_val < pop_val { return 0 }  push_val - pop_val
Size2LoadPop(t) ==
    /\ pc[t] = "size_load_pop"
    /\ Goto(t, "size_done", [loc[t] EXCEPT !.seen = pop_cursor,
                                            !.ret = IF loc[t].cur < pop_cursor THEN Some(0)
                                                    ELSE Some(loc[t].cur - pop_cursor)])
    /\ UNCHANGED <<cfg, pair, qvars, panicked, ghost, hvars, life>>
    /\ Track(t)

\* the caller has the result
Size2Return(t) ==
    /\ pc[t] = "size_done"
    /\ Goto(t, "idle", NoLocals)
    /\ modified' = [modified EXCEPT ![t] = FALSE]
    /\ UNCHANGED <<cfg, pair, qvars, panicked, ghost, hvars, life>>
    /\ Observe

SizeStep(t) ==
        \/ PushCall(t)
        \/ PopCall(t)
        \/ PushReturn(t)
        \/ PopReturn(t)
        \/ Push2LoadPush(t)
        \/ Push2LoadPop(t)
        \/ PushWrite(t)
        \/ PushStore(t)
        \/ Pop2LoadPush(t)
        \/ Pop2LoadPop(t)
        \/ PopTake(t)
        \/ PopStore(t)
        \/ Size2Call(t)
        \/ Size2LoadPush(t)
        \/ Size2LoadPop(t)
        \/ Size2Return(t)

SizeNext == \E t \in Threads : SizeStep(t)

WithSize == SizeInit /\ [][SizeNext]_vars

\* ---- Fifo4/5 beside a Fifo2 given the same calls --------------------------
\* The twin is a Fifo2 of the same capacity.  Every step of a Fifo4/5 call is
\* followed at once by the steps of the same call on the twin that fall on
\* it; twin.at[t] is the place of thread t the twin has followed up to.
\* align = "check":  the twin loads the cursors and decides at the step where
\*                   Fifo4/5 checks its shadow;
\* align = "decide": at the step where Fifo4/5 decides: the shadow check when
\*                   it passes, the refresh otherwise.
InStep == \A u \in Threads : twin.at[u] = pc[u]

\* Fifo2: queue.push(item) / queue.pop() is called, or returns
Twin2Call(tw, t, label, item) ==
    [tw EXCEPT !.pc[t] = label, !.loc[t] = [NoLocals EXCEPT !.item = item]]
Twin2Return(tw, t) ==
    [tw EXCEPT !.pc[t] = "idle", !.loc[t] = NoLocals]

\* Fifo2::push: push_cursor.load(Relaxed); pop_cursor.load(Acquire);
\* if push_val >= pop_val + self.capacity { return false }
Twin2PushLoads(tw, t) ==
    IF IsFull(tw.push_cursor, tw.pop_cursor)
    THEN [tw EXCEPT !.pc[t] = "push_done", !.loc[t].cur = tw.push_cursor,
                    !.loc[t].seen = tw.pop_cursor, !.loc[t].ok = FALSE]
    ELSE [tw EXCEPT !.pc[t] = "push_write", !.loc[t].cur = tw.push_cursor,
                    !.loc[t].seen = tw.pop_cursor]

\* *self.ring[loc].get() = Some(item)
Twin2PushWrite(tw, t) ==
    [tw EXCEPT !.pc[t] = "push_store",
               !.ring[RingLoc(tw.loc[t].cur)] = Some(tw.loc[t].item)]

\* self.push_cursor.store(push_val + 1, Release); true
Twin2PushStore(tw, t) ==
    [tw EXCEPT !.pc[t] = "push_done", !.push_cursor = tw.loc[t].cur + 1, !.loc[t].ok = TRUE]

\* Fifo2::pop: push_cursor.load(Acquire); pop_cursor.load(Relaxed);
\* if push_val == pop_val { return None }
Twin2PopLoads(tw, t) ==
    IF IsEmpty(tw.push_cursor, tw.pop_cursor)
    THEN [tw EXCEPT !.pc[t] = "pop_done", !.loc[t].cur = tw.pop_cursor,
                    !.loc[t].seen = tw.push_cursor, !.loc[t].ret = None]
    ELSE [tw EXCEPT !.pc[t] = "pop_read", !.loc[t].cur = tw.pop_cursor,
                    !.loc[t].seen = tw.push_cursor]

\* let value = (*self.ring[loc].get()).take()
Twin2PopTake(tw, t) ==
    [tw EXCEPT !.pc[t] = "pop_store",
               !.loc[t].ret = tw.ring[RingLoc(tw.loc[t].cur)],
               !.ring[RingLoc(tw.loc[t].cur)] = None]

\* self.pop_cursor.store(pop_val + 1, Release); value
Twin2PopStore(tw, t) ==
    [tw EXCEPT !.pc[t] = "pop_done", !.pop_cursor = tw.loc[t].cur + 1]

\* the twin after the steps of its call that fall on the step thread t has
\* just taken, from twin.at[t] to pc[t]
Twin2After(t) ==
    LET from == twin.at[t]
        to == pc[t]
        at == twin.pc[t]
    IN  CASE from = "idle" /\ to = "push_begin" -> Twin2Call(twin, t, "push_begin", loc[t].item)
          [] from = "idle" /\ to = "pop_begin" -> Twin2Call(twin, t, "pop_begin", 0)
          [] from = "push_begin" ->
                IF align = "check" \/ to = "push_write" THEN Twin2PushLoads(twin, t) ELSE twin
          [] from = "push_refresh" ->
                IF align = "decide" THEN Twin2PushLoads(twin, t) ELSE twin
          [] from = "push_write" /\ to = "push_store" ->
                IF at = "push_write" THEN Twin2PushWrite(twin, t) ELSE twin
          [] from = "push_store" ->
                IF at = "push_store" THEN Twin2PushStore(twin, t) ELSE twin
          [] from = "pop_begin" ->
                IF align = "check" \/ to = "pop_read" THEN Twin2PopLoads(twin, t) ELSE twin
          [] from = "pop_refresh" ->
                IF align = "decide" THEN Twin2PopLoads(twin, t) ELSE twin
          [] from = "pop_read" /\ to = "pop_store" ->
                IF at = "pop_read" THEN Twin2PopTake(twin, t) ELSE twin
          [] from = "pop_store" ->
                IF at = "pop_store" THEN Twin2PopStore(twin, t) ELSE twin
          [] from \in {"push_done", "pop_done"} -> Twin2Return(twin, t)
          [] OTHER -> twin

\* the twin follows the step thread t has just taken
Twin2Follow(t) ==
    /\ twin.at[t] # pc[t]
    /\ twin' = [Twin2After(t) EXCEPT !.at[t] = pc[t]]
    /\ UNCHANGED <<align, cfg, qvars, tvars, ghost, hvars, life>>

PairInit ==
    /\ mode = "spsc"
    /\ \E v \in {4, 5} : \E c \in Caps(v) : New(v, c)
    /\ InitShared
    /\ modulus = Pow2(WordBits)
    /\ align \in {"check", "decide"}
    /\ iters = 0
    /\ cons = "pop"
    /\ observing = FALSE

\* a step of Fifo4/5 once the twin has followed the one before, or the twin
\* following
PairStep(t) ==
        \/ InStep /\ PushCall(t)
        \/ InStep /\ PopCall(t)
        \/ InStep /\ PushReturn(t)
        \/ InStep /\ PopReturn(t)
        \/ InStep /\ Push4Check(t)
        \/ InStep /\ Push4Refresh(t)
        \/ InStep /\ PushWrite(t)
        \/ InStep /\ PushStore(t)
        \/ InStep /\ Pop4Check(t)
        \/ InStep /\ Pop4Refresh(t)
        \/ InStep /\ PopTake(t)
        \/ InStep /\ Pop5Read(t)
        \/ InStep /\ PopStore(t)
        \/ Twin2Follow(t)

PairNext == \E t \in Threads : PairStep(t)

SideBySide == PairInit /\ [][PairNext]_vars

\* ---- Fifo6 with a narrow usize --------------------------------------------
\* the capacities of the wrap-around runs: powers of two from 2 to 2^(w-2)
WrapCaps == {c \in Caps(6) : c >= 2 /\ 4 * c <= Pow2(WrapBits)}

WrapInit ==
    /\ mode \in {"spsc", "spmc"}
    /\ \E c \in WrapCaps : New(6, c)
    /\ InitShared
    /\ modulus = Pow2(WrapBits)
    /\ align = "decide"
    /\ iters = 0
    /\ cons = "pop"
    /\ observing = (mode = "spsc")

WrapStep(t) ==
        \/ PushCall(t)
        \/ PopCall(t)
        \/ PushReturn(t)
        \/ PopReturn(t)
        \/ Push6LoadTail(t)
        \/ Push6LoadTurn(t)
        \/ Push6Cas(t)
        \/ Push6Write(t)
        \/ Push6StoreTurn(t)
        \/ Pop6LoadHead(t)
        \/ Pop6LoadTurn(t)
        \/ Pop6Cas(t)
        \/ Pop6Read(t)
        \/ Pop6StoreTurn(t)

WrapNext == \E t \in Threads : WrapStep(t)

Wrapping == WrapInit /\ [][WrapNext]_vars

\* ---- C21 ----------------------------------------------------------------
\* Fifo4, Fifo5: the producer's shadow of the consumer's progress never runs
\* ahead of it: cached_pop <= pop_cursor in every reachable state.
C21_CachedPopLowerBound ==
    variant \in {4, 5} => cached_pop <= pop_cursor

\* the producer has refreshed its shadow and the consumer has popped since
C21_Witness ==
    /\ variant \in {4, 5}
    /\ mode = "spsc"
    /\ 0 < cached_pop
    /\ cached_pop < pop_cursor

\* ---- C22 ----------------------------------------------------------------
\* Fifo4, Fifo5: the consumer's shadow of the producer's progress is an upper
\* bound of it: cached_push >= push_cursor in every reachable state.
C22_CachedPushUpperBound ==
    variant \in {4, 5} => cached_push >= push_cursor

\* C22 as amended: the consumer's shadow of the producer's progress never runs
\* ahead of it: cached_push <= push_cursor in every reachable state.
C22_CachedPushLowerBound ==
    variant \in {4, 5} => cached_push <= push_cursor

\* the consumer has refreshed its shadow and the producer has pushed since
C22_Witness ==
    /\ variant \in {4, 5}
    /\ mode = "spsc"
    /\ 0 < cached_push
    /\ cached_push < push_cursor

\* ---- C25 ----------------------------------------------------------------
\* Fifo4, Fifo5: pop_cursor <= cached_push <= push_cursor and
\* push_cursor <= cached_pop + capacity in every reachable state.
C25_ShadowSandwich ==
    variant \in {4, 5} =>
        /\ pop_cursor <= cached_push
        /\ cached_push <= push_cursor
        /\ push_cursor <= cached_pop + capacity

\* the queue is full by a stale shadow and the consumer has caught up with
\* its own shadow, while both calls are running
C25_Witness ==
    /\ variant \in {4, 5}
    /\ mode = "spsc"
    /\ capacity >= 2
    /\ push_cursor = cached_pop + capacity
    /\ cached_pop < pop_cursor
    /\ pop_cursor = cached_push
    /\ cached_push < push_cursor

\* ---- C23 ----------------------------------------------------------------
\* the step is one of the push (pop) of thread t
PushStepOf(t) == InPush(pc[t]) /\ pc'[t] # pc[t]
PopStepOf(t) == InPop(pc[t]) /\ pc'[t] # pc[t]

\* the step is the one a successful push (pop) of t completes with
PushSucceeds(t) == pc[t] = "push_store" /\ pc'[t] = "push_done" /\ loc'[t].ok
PopSucceeds(t) == pc[t] = "pop_store" /\ pc'[t] = "pop_done" /\ loc'[t].ret # None

\* the step changes the cursors the way the owner of each may
CursorFrames ==
    variant \in 2..5 =>
         /\ \A t \in Threads :
               PushStepOf(t) => pop_cursor' = pop_cursor /\ cached_push' = cached_push
         /\ \A t \in Threads :
               PopStepOf(t) => push_cursor' = push_cursor /\ cached_pop' = cached_pop
         /\ push_cursor' # push_cursor =>
               /\ push_cursor' = push_cursor + 1
               /\ \E t \in Producers : PushSucceeds(t)
         /\ pop_cursor' # pop_cursor =>
               /\ pop_cursor' = pop_cursor + 1
               /\ \E t \in Consumers : PopSucceeds(t)
         /\ \A t \in Threads :
               (pc'[t] = "push_done" /\ pc[t] # "push_done" /\ loc'[t].ok)
                   => push_cursor' = push_cursor + 1
         /\ \A t \in Threads :
               (pc'[t] = "pop_done" /\ pc[t] # "pop_done" /\ loc'[t].ret # None)
                   => pop_cursor' = pop_cursor + 1

\* C23.  Fifo2..5: no step of push changes pop_cursor or cached_push, no step
\* of pop changes push_cursor or cached_pop; a cursor changes only by +1, in
\* the one step a successful operation of its owner completes with, and in
\* every such step; so no cursor ever decreases.
C23_CursorFrames == [][CursorFrames]_vars

\* both cursors have advanced more than once, both shadows have been
\* refreshed, and a push and a pop are running
C23_Witness ==
    /\ variant \in {4, 5}
    /\ mode = "spsc"
    /\ push_cursor >= 2
    /\ pop_cursor >= 2
    /\ cached_pop >= 1
    /\ cached_push >= 1
    /\ pc["p0"] = "push_store"
    /\ pc["c0"] = "pop_store"

\* ---- C24 ----------------------------------------------------------------
\* the size() of t has loaded both cursors
SizeDone(t) == pc[t] = "size_done"
SawPopAhead(t) == loc[t].cur < loc[t].seen
SizeInRange(t) == loc[t].ret # None /\ loc[t].ret[1] \in 0 .. capacity

Contents(cells, lo, hi) == [k \in 1 .. hi - lo |-> cells[(lo + k - 1) % capacity]]
PopHasRead(label) == IF label = "pop_store" THEN 1 ELSE 0

\* the twin has the cursors, the contents and, for every call that is about
\* to return, the result of the queue
PairAgrees ==
    /\ twin.push_cursor = push_cursor
    /\ twin.pop_cursor = pop_cursor
    /\ Contents(twin.ring, twin.pop_cursor + PopHasRead(twin.pc["c0"]), twin.push_cursor)
          = Contents(ring, pop_cursor + PopHasRead(pc["c0"]), push_cursor)
    /\ \A t \in Threads :
          /\ pc[t] = "push_done" => twin.pc[t] = "push_done" /\ twin.loc[t].ok = loc[t].ok
          /\ pc[t] = "pop_done" => twin.pc[t] = "pop_done" /\ twin.loc[t].ret = loc[t].ret

\* Fifo4/5 beside a Fifo2 given the same calls, the Fifo2 taking its
\* cross-thread load at the step where Fifo4/5 checks its shadow: every call
\* returns the same in both, and the cursors and the contents stay equal.
C26_TwinAtShadowCheck ==
    (align = "check" /\ InStep) => PairAgrees

\* C26 as amended: the same with the Fifo2 taking its loads at the step where
\* Fifo4/5 decides the call: the shadow check when it passes, the refresh of
\* the shadow otherwise.
C26_TwinAtDecision ==
    (align = "decide" /\ InStep) => PairAgrees

\* a push that found the queue full by its stale shadow, refreshed it and
\* succeeded is about to return, with the twin in step; so is a pop
C26_Witness ==
    /\ align = "decide"
    /\ InStep
    /\ capacity = 2
    /\ pc["p0"] = "push_done" /\ loc["p0"].ok /\ twin.loc["p0"].ok
    /\ push_cursor = 4
    /\ cached_pop = 2
    /\ pc["c0"] = "pop_done" /\ loc["c0"].ret = Some(2) /\ twin.loc["c0"].ret = Some(2)

\* ---- C27 ----------------------------------------------------------------
\* this step sends thread t back to the head of the loop of push / pop
PushGoesRound(t) == pc[t] \in {"push_load_turn", "push_cas"} /\ pc'[t] = "push_begin"
PopGoesRound(t) == pc[t] \in {"pop_load_turn", "pop_cas"} /\ pc'[t] = "pop_begin"

\* a thread other than t has won its compare_exchange and not yet stored the
\* turn of its slot
PeerStalled(t) ==
    \E u \in Threads \ {t} : pc[u] \in {"push_write", "push_store", "pop_read", "pop_store"}

LockFreeStep ==
    (variant = 6 /\ capacity >= 2) =>
        \A t \in Threads :
            /\ PushGoesRound(t) => tail # loc[t].cur
            /\ PopGoesRound(t) => head # loc[t].cur

\* C27.  Turn-based queue, capacity >= 2, any number of producers and
\* consumers: a call goes round its loop again only if tail (push) / head
\* (pop) is no longer the value the call read, that is, another thread has
\* advanced it since; while it still is that value the call's next step does
\* not go round, whatever the other threads are in the middle of.
C27_RetryOnlyAfterAdvance == [][LockFreeStep]_vars

\* a push is about to fail its compare_exchange because a peer, now stalled
\* before its turn store, advanced tail; a pop reads the turn of a slot that
\* another pop has taken since it read head
C27_Witness ==
    /\ variant = 6
    /\ mode = "mpmc"
    /\ capacity >= 2
    /\ pc["p1"] = "push_cas" /\ tail # loc["p1"].cur
    /\ PeerStalled("p1")
    /\ pc["c1"] = "pop_load_turn"
    /\ as_isize(PopDiff(turn[RingIndex(loc["c1"].cur)], loc["c1"].cur)) > 0

\* ---- C28 ----------------------------------------------------------------
\* the usize of the run is narrow enough for head, tail and the turns to wrap,
\* and the capacity is a power of two from 2 to a quarter of its range
NarrowWord == variant = 6 /\ modulus = Pow2(WrapBits) /\ capacity >= 2 /\ 4 * capacity <= modulus

\* C28.  Turn-based queue, head, tail and the turns w bits wide and wrapping,
\* capacity a power of two, 2 <= capacity <= 2^(w-2): however often the
\* counters wrap, every pop returns the item of the push that claimed the same
\* position, no item is returned twice, the queue never holds more than
\* capacity items or fewer than none, a false / None is returned only by a
\* call during which the queue was full / empty (one producer, one consumer),
\* and one consumer gets the items in push order.
C28_WrapSafe ==
    NarrowWord =>
        /\ \A t \in Threads : Holds(t) =>
              /\ loc[t].gpos < Len(tailClaims)
              /\ loc[t].ret = Some(tailClaims[loc[t].gpos + 1])
        /\ NoDuplicates(popped)
        /\ headClaims <= Len(tailClaims)
        /\ Len(tailClaims) - PopsCompleted <= capacity
        /\ mode = "spsc" =>
              /\ InPushOrder(popped)
              /\ \A t \in Threads : (PushFailed(t) \/ PopFailed(t)) => instant[t]

\* the same of the runs of one producer and one consumer
C28_WrapSafeSpsc == mode = "spsc" => C28_WrapSafe

\* head and tail have gone round the usize and calls have completed since
C28_Wrapped ==
    /\ NarrowWord
    /\ mode = "spsc"
    /\ Len(tailClaims) > modulus
    /\ headClaims > modulus
    /\ tail < capacity
    /\ head < capacity
    /\ Len(popped) > modulus
====
